---- MODULE Spec2Model ----
(***************************************************************************)
(* pc.SoundInstance (src/src/sound/instance.js), Web Audio ("Graph")       *)
(* variant: the playback state machine, the logical-position bookkeeping,  *)
(* the asynchronous `ended` notifications of buffer sources, the manager   *)
(* signals and the external node chain.                                    *)
(*                                                                         *)
(* Units.  The audio clock (context.currentTime) advances in whole         *)
(* seconds.  Positions, offsets and durations are integers counting        *)
(* hundredths of a second, and a pitch is an integer counting hundredths   *)
(* (pitch 1.0 is 100, the floor 0.01 is 1), so that                        *)
(*     position + (seconds elapsed) * pitch                                *)
(* is exact.  Volumes are integers counting hundredths (1.0 is 100) and    *)
(* the gain written to the gain node counts ten-thousandths.               *)
(***************************************************************************)
EXTENDS Integers, Sequences, FiniteSets, TLC

VARIABLES
    inst,   \* the SoundInstance object: its fields, `source` included
    mgr,    \* the manager: volume, suspended, the instance's subscriptions
    ctx,    \* the audio context: clock, gain value, connections, queued `ended` events
    obs,    \* observation of the most recent call: events fired, result, backend calls
    hist    \* observation across calls: when play() was called, what pause() froze

vars == <<inst, mgr, ctx, obs, hist>>

----------------------------------------------------------------------------
(* Program constants *)

STATE_PLAYING == 0
STATE_PAUSED == 1
STATE_STOPPED == 2

\* the pitch floor 0.01, in hundredths
MinPitch == 1
\* the number 1.0, in hundredths
One == 100 * MinPitch
\* one second of position
Sec == One

(* Bounds of the model *)

\* the audio clock stops advancing here (seconds)
MaxClock == 4
\* `ended` events queued and not yet delivered
MaxInFlight == 2

----------------------------------------------------------------------------
(* Values *)

\* null for a number-or-null field; a number x is <<x>>
NULL == <<>>

\* Number(x) of a number-or-null value: null converts to 0
Num(x) == IF x = NULL THEN 0 ELSE x[1]

\* no node (null / undefined argument)
NoNode == ""
Connector == "connector"
Speakers == "speakers"

\* a sound resource: null, a resource that is not decoded (no buffer), or a decoded one
NoSound == [kind |-> "null", duration |-> 0]
Undecoded == [kind |-> "nobuffer", duration |-> 0]
Decoded(d) == [kind |-> "buffer", duration |-> d]

\* this.source = null
NoSource ==
    [status |-> "null", buffer |-> 0, loop |-> FALSE, playbackRate |-> One,
     loopStart |-> 0, loopEnd |-> 0, offset |-> NULL, duration |-> NULL]

Max(a, b) == IF a >= b THEN a ELSE b
Min(a, b) == IF a <= b THEN a ELSE b

\* pc.math.clamp
clamp(v, lo, hi) == IF v >= hi THEN hi ELSE IF v <= lo THEN lo ELSE v

\* (time % duration) || 0 : the remainder, and 0 instead of NaN when duration is 0
\* (time is never negative here: the setters reject or clamp negative values)
capTime(time, duration) == IF duration = 0 THEN 0 ELSE time % duration

\* the `duration` property (getter)
duration_get(i) ==
    IF i._sound.kind = "null" THEN 0
    ELSE IF i._duration # 0 THEN capTime(i._duration, i._sound.duration)
    ELSE i._sound.duration

----------------------------------------------------------------------------
(* The world a handler runs in, and what a call leaves behind *)

World == [inst |-> inst, mgr |-> mgr, ctx |-> ctx, obs |-> obs]

\* no `ended` event delivered by this call
NoNote == [cause |-> "", current |-> FALSE]

\* a fresh observation for the call `op`
Begin(op) ==
    [World EXCEPT !.obs =
        [op |-> op, fired |-> <<>>, ret |-> "void", val |-> 0, threw |-> "",
         starts |-> <<>>, stops |-> 0, disconnects |-> 0, logged |-> FALSE, states |-> <<>>, calls |-> <<>>,
         preState |-> inst._state, preSource |-> inst.source.status,
         preOffset |-> inst._startOffset, delivered |-> NoNote,
         arg |-> 0, first |-> NoNode, last |-> NoNode,
         preNodes |-> <<inst._firstNode, inst._lastNode>>]]

Ok(w) == w.obs.threw = ""

Throw(w, err) == [w EXCEPT !.obs.threw = err]

Ret(w, r) == IF Ok(w) THEN [w EXCEPT !.obs.ret = r] ELSE w

\* the rest of a handler, F, runs on the world v the step before it left
With(v, F(_)) == F(v)

\* ... unless that step threw: an exception ends the handler and its callers
Try(v, F(_)) == IF Ok(v) THEN F(v) ELSE v

\* this.fire(name, this) behind `if (! this._suspendInstanceEvents)`
Fire(w, ev) ==
    IF w.inst._suspendInstanceEvents THEN w
    ELSE [w EXCEPT !.obs.fired = Append(@, ev)]

\* this.fire(name, this), unguarded
FireAlways(w, ev) == [w EXCEPT !.obs.fired = Append(@, ev)]

----------------------------------------------------------------------------
(* The backend: AudioBufferSourceNode and AudioNode connections *)

\* queued `ended` events no longer belong to the instance's current source
Stale(q) == [k \in 1..Len(q) |-> [q[k] EXCEPT !.current = FALSE]]

\* source.start(0, offset[, duration]): a source can be started once
sourceStart(w, offset) ==
    IF w.inst.source.status # "fresh" THEN Throw(w, "InvalidStateError")
    ELSE [w EXCEPT !.inst.source.status = "started",
                   !.inst.source.offset = <<offset>>,
                   !.inst.source.duration =
                        IF w.inst._duration # 0 THEN <<w.inst._duration>> ELSE NULL,
                   !.obs.starts = Append(@, offset),
                   !.obs.calls = Append(@, "start")]

\* source.stop(0): a playing source stops and its `ended` event is queued;
\* a source that has already ended or stopped is left as it is
sourceStop(w, cause) ==
    CASE w.inst.source.status = "started" ->
            [w EXCEPT !.inst.source.status = "stopped",
                      !.ctx.ended = Append(@, [cause |-> cause, current |-> TRUE]),
                      !.obs.stops = @ + 1]
      [] w.inst.source.status \in {"stopped", "ended"} ->
            [w EXCEPT !.obs.stops = @ + 1]
      [] OTHER -> Throw(w, "InvalidStateError")

\* from.connect(to): connecting twice is one connection
connect(w, from, to) == [w EXCEPT !.ctx.edges = @ \cup {<<from, to>>}]

\* from.disconnect(to): fails when there is no such connection
disconnect(w, from, to) ==
    IF <<from, to>> \in w.ctx.edges
    THEN [w EXCEPT !.ctx.edges = @ \ {<<from, to>>}, !.obs.disconnects = @ + 1]
    ELSE Throw(w, "InvalidAccessError")

----------------------------------------------------------------------------
(* Property setters that only write through to the backend *)

volume_set(w, volume) ==
    [w EXCEPT !.inst._volume = clamp(volume, 0, One),
              !.ctx.gain = clamp(volume, 0, One) * w.mgr.volume,
              !.obs.calls = Append(@, "volume")]

loop_set(w, loop) ==
    [w EXCEPT !.inst._loop = loop,
              !.inst.source.loop =
                    IF w.inst.source.status # "null" THEN loop ELSE @,
              !.obs.calls =
                    IF w.inst.source.status # "null" THEN Append(@, "loop") ELSE @]

pitch_set(w, pitch) ==
    [w EXCEPT !.inst._currentTime =
                    IF w.inst._calculatedCurrentTimeAt # 0
                    THEN capTime(@ + (w.ctx.currentTime - w.inst._calculatedCurrentTimeAt)
                                        * w.inst._pitch,
                                 duration_get(w.inst))
                    ELSE @,
              !.inst._calculatedCurrentTimeAt =
                    IF @ # 0 THEN w.ctx.currentTime ELSE @,
              !.inst._pitch = Max(pitch, MinPitch),
              !.inst.source.playbackRate =
                    IF w.inst.source.status # "null" THEN Max(pitch, MinPitch) ELSE @,
              !.obs.calls =
                    IF w.inst.source.status # "null" THEN Append(@, "pitch") ELSE @]

\* this.volume = this._volume; this.loop = this._loop; this.pitch = this._pitch
writeParams(w) ==
    pitch_set(loop_set(volume_set(w, w.inst._volume), w.inst._loop), w.inst._pitch)

----------------------------------------------------------------------------
(* Source lifecycle and the four playback methods *)

_createSource(w) ==
    IF w.inst._sound.kind = "buffer"
    THEN Fire([w EXCEPT
                !.inst.source =
                    [status |-> "fresh", buffer |-> w.inst._sound.duration,
                     loop |-> FALSE, playbackRate |-> One,
                     loopStart |-> capTime(w.inst._startTime, w.inst._sound.duration),
                     loopEnd |-> IF w.inst._duration # 0
                                 THEN Max(capTime(w.inst._startTime, w.inst._sound.duration),
                                          capTime(w.inst._startTime + w.inst._duration,
                                                  w.inst._sound.duration))
                                 ELSE 0,
                     offset |-> NULL, duration |-> NULL],
                !.ctx.ended = Stale(@)],
             "ready")
    ELSE w

\* stop() that leaves the manager's signals subscribed
stop_subscribed(w) ==
    IF w.inst._state = STATE_STOPPED \/ w.inst.source.status = "null"
    THEN Ret(w, "false")
    ELSE Try(IF w.inst._state = STATE_PLAYING
             THEN sourceStop([w EXCEPT !.inst._startedAt = 0,
                                       !.inst._startOffset = NULL,
                                       !.inst._playWhenLoaded = FALSE,
                                       !.inst._suspendEndEvent = TRUE],
                             "teardown")
             ELSE [w EXCEPT !.inst._startedAt = 0,
                            !.inst._startOffset = NULL,
                            !.inst._playWhenLoaded = FALSE,
                            !.inst._suspendEndEvent = TRUE],
             LAMBDA w1 :
                Ret(Fire(_createSource([w1 EXCEPT !.inst._state = STATE_STOPPED,
                                                  !.obs.states = Append(@, STATE_STOPPED)]),
                         "stop"),
                    "true"))

stop(w) ==
    IF w.inst._state = STATE_STOPPED \/ w.inst.source.status = "null"
    THEN Ret(w, "false")
    ELSE Try(IF w.inst._state = STATE_PLAYING
             THEN sourceStop([w EXCEPT !.mgr.listeners = 0,
                                       !.inst._startedAt = 0,
                                       !.inst._startOffset = NULL,
                                       !.inst._playWhenLoaded = FALSE,
                                       !.inst._suspendEndEvent = TRUE],
                             "teardown")
             ELSE [w EXCEPT !.mgr.listeners = 0,
                            !.inst._startedAt = 0,
                            !.inst._startOffset = NULL,
                            !.inst._playWhenLoaded = FALSE,
                            !.inst._suspendEndEvent = TRUE],
             LAMBDA w1 :
                Ret(Fire(_createSource([w1 EXCEPT !.inst._state = STATE_STOPPED,
                                                  !.obs.states = Append(@, STATE_STOPPED)]),
                         "stop"),
                    "true"))

\* pause() that does not look at the state
pause_anyState(w) ==
    IF w.inst.source.status = "null"
    THEN Ret(w, "false")
    ELSE Try(sourceStop(
                [w EXCEPT !.inst._state = STATE_PAUSED,
                          !.obs.states = Append(@, STATE_PAUSED),
                          !.inst._currentTime =
                                capTime(@ + (w.ctx.currentTime
                                               - w.inst._calculatedCurrentTimeAt)
                                            * w.inst._pitch,
                                        duration_get(w.inst)),
                          !.inst._calculatedCurrentTimeAt = w.ctx.currentTime,
                          !.inst._suspendEndEvent = TRUE],
                "teardown"),
             LAMBDA w1 :
                With(_createSource(w1), LAMBDA w2 :
                    Ret(Fire([w2 EXCEPT !.inst._playWhenLoaded = FALSE,
                                        !.inst._startOffset = NULL],
                             "pause"),
                        "true")))

\* pause() that drops a pending seek before it looks at the state
pause_eager(w) ==
    IF w.inst._state # STATE_PLAYING \/ w.inst.source.status = "null"
    THEN Ret([w EXCEPT !.inst._startOffset = NULL], "false")
    ELSE Try(sourceStop(
                [w EXCEPT !.inst._state = STATE_PAUSED,
                          !.obs.states = Append(@, STATE_PAUSED),
                          !.inst._currentTime =
                                capTime(@ + (w.ctx.currentTime
                                               - w.inst._calculatedCurrentTimeAt)
                                            * w.inst._pitch,
                                        duration_get(w.inst)),
                          !.inst._calculatedCurrentTimeAt = w.ctx.currentTime,
                          !.inst._suspendEndEvent = TRUE],
                "teardown"),
             LAMBDA w1 :
                With(_createSource(w1), LAMBDA w2 :
                    Ret(Fire([w2 EXCEPT !.inst._playWhenLoaded = FALSE,
                                        !.inst._startOffset = NULL],
                             "pause"),
                        "true")))

pause(w) ==
    IF w.inst._state # STATE_PLAYING \/ w.inst.source.status = "null"
    THEN Ret(w, "false")
    ELSE Try(sourceStop(
                [w EXCEPT !.inst._state = STATE_PAUSED,
                          !.obs.states = Append(@, STATE_PAUSED),
                          !.inst._currentTime =
                                capTime(@ + (w.ctx.currentTime
                                               - w.inst._calculatedCurrentTimeAt)
                                            * w.inst._pitch,
                                        duration_get(w.inst)),
                          !.inst._calculatedCurrentTimeAt = w.ctx.currentTime,
                          !.inst._suspendEndEvent = TRUE],
                "teardown"),
             LAMBDA w1 :
                With(_createSource(w1), LAMBDA w2 :
                    Ret(Fire([w2 EXCEPT !.inst._playWhenLoaded = FALSE,
                                        !.inst._startOffset = NULL],
                             "pause"),
                        "true")))

\* seekOffset without the wrap of the pending seek into the window
seekOffset_unwrapped(i) ==
    capTime(i._startTime + Num(i._startOffset), i._sound.duration)

\* the absolute offset of a position within the window
\* (a pending seek is first wrapped into the window)
seekOffset(i) ==
    capTime(i._startTime + capTime(Num(i._startOffset), duration_get(i)),
            i._sound.duration)

resume(w) ==
    IF w.inst._state # STATE_PAUSED \/ w.inst.source.status = "null"
    THEN Ret(w, "false")
    ELSE IF w.inst._sound.kind = "null" THEN Throw(w, "TypeError")
    ELSE Try(sourceStart([w EXCEPT !.inst._startOffset = NULL],
                         IF w.inst._startOffset # NULL
                         THEN seekOffset(w.inst)
                         ELSE capTime(w.inst._startTime + w.inst._currentTime,
                                      w.inst._sound.duration)),
             LAMBDA w1 :
                With(writeParams([w1 EXCEPT !.inst._state = STATE_PLAYING,
                                            !.obs.states = Append(@, STATE_PLAYING)]), LAMBDA w2 :
                    Ret(Fire([w2 EXCEPT !.inst._playWhenLoaded = FALSE], "resume"),
                        "true")))

\* _onManagerVolumeChange that does not write the gain again
_onManagerVolumeChange_ignored(w) == w

_onManagerVolumeChange(w) == volume_set(w, w.inst._volume)

_onManagerSuspend(w) ==
    IF w.inst._state = STATE_PLAYING /\ ~w.inst._suspended
    THEN pause([w EXCEPT !.inst._suspended = TRUE])
    ELSE w

_onManagerResume(w) ==
    IF w.inst._suspended
    THEN resume([w EXCEPT !.inst._suspended = FALSE])
    ELSE w

_onManagerDestroy(w) ==
    IF w.inst.source.status # "null" /\ w.inst._state = STATE_PLAYING
    THEN Try(sourceStop(w, "destroy"),
             LAMBDA w1 : [w1 EXCEPT !.inst.source = NoSource, !.ctx.ended = Stale(@)])
    ELSE w

\* play() from `if (!this.source)` on
playStopped(w) ==
    IF w.inst.source.status = "null" THEN Ret(w, "false")
    ELSE IF w.inst._sound.kind = "null" THEN Throw(w, "TypeError")
    ELSE Try(sourceStart([w EXCEPT !.inst._startOffset = NULL], seekOffset(w.inst)),
             LAMBDA w1 :
                With(writeParams(
                        [w1 EXCEPT !.inst._startedAt =
                                        w.ctx.currentTime * Sec - seekOffset(w.inst),
                                   !.inst._currentTime = 0,
                                   !.inst._calculatedCurrentTimeAt = w.ctx.currentTime,
                                   !.inst._state = STATE_PLAYING,
                                   !.obs.states = Append(@, STATE_PLAYING),
                                   !.inst._playWhenLoaded = FALSE,
                                   !.mgr.listeners = @ + 1]),
                     LAMBDA w2 :
                        Try(IF w2.mgr.suspended THEN _onManagerSuspend(w2) ELSE w2,
                            LAMBDA w3 : Ret(Fire(w3, "play"), "true"))))

play(w) ==
    Try(IF w.inst._state # STATE_STOPPED THEN stop(w) ELSE w, playStopped)

_onEnded(w) ==
    IF w.inst._suspendEndEvent
    THEN [w EXCEPT !.inst._suspendEndEvent = FALSE]
    ELSE Ret(stop(FireAlways(w, "end")), "void")

----------------------------------------------------------------------------
(* Properties with side effects *)

sound_set(w, value) ==
    Ret(IF w.inst._state # STATE_STOPPED
        THEN stop([w EXCEPT !.inst._sound = value])
        ELSE _createSource([w EXCEPT !.inst._sound = value]),
        "void")

\* the value the getter computes while playing
playingTime(w) ==
    capTime(w.inst._currentTime
              + (w.ctx.currentTime - w.inst._calculatedCurrentTimeAt) * w.inst._pitch,
            duration_get(w.inst))

\* currentTime_get without the checkpoint of the clock
currentTime_get_nocheckpoint(w) ==
    IF w.inst._startOffset # NULL
    THEN [w EXCEPT !.obs.ret = "value", !.obs.val = Num(w.inst._startOffset)]
    ELSE IF w.inst._state = STATE_STOPPED \/ w.inst.source.status = "null"
    THEN [w EXCEPT !.obs.ret = "value", !.obs.val = 0]
    ELSE IF w.inst._state = STATE_PAUSED
    THEN [w EXCEPT !.obs.ret = "value", !.obs.val = w.inst._currentTime]
    ELSE [w EXCEPT !.inst._currentTime = playingTime(w),
                   !.obs.ret = "value", !.obs.val = playingTime(w)]

\* the getter: the value is left in obs.val
currentTime_get(w) ==
    IF w.inst._startOffset # NULL
    THEN [w EXCEPT !.obs.ret = "value", !.obs.val = Num(w.inst._startOffset)]
    ELSE IF w.inst._state = STATE_STOPPED \/ w.inst.source.status = "null"
    THEN [w EXCEPT !.obs.ret = "value", !.obs.val = 0]
    ELSE IF w.inst._state = STATE_PAUSED
    THEN [w EXCEPT !.obs.ret = "value", !.obs.val = w.inst._currentTime]
    ELSE [w EXCEPT !.inst._currentTime = playingTime(w),
                   !.inst._calculatedCurrentTimeAt = w.ctx.currentTime,
                   !.obs.ret = "value", !.obs.val = playingTime(w)]

currentTime_set(w, value) ==
    IF value < 0 THEN w
    ELSE IF w.inst._state = STATE_PLAYING
    THEN Try(stop(w), LAMBDA w1 :
            Try(play([w1 EXCEPT !.inst._suspendInstanceEvents = TRUE,
                                !.inst._startOffset = <<value>>]),
                LAMBDA w2 :
                    Ret([w2 EXCEPT !.inst._suspendInstanceEvents =
                                        w1.inst._suspendInstanceEvents],
                        "void")))
    ELSE [w EXCEPT !.inst._startOffset = <<value>>,
                   !.inst._currentTime = value,
                   !.inst._calculatedCurrentTimeAt = w.ctx.currentTime]

\* the tail shared by the startTime and duration setters
restart(w, isPlaying) ==
    Try(stop(w), LAMBDA w1 : Ret(IF isPlaying THEN play(w1) ELSE w1, "void"))

startTime_set(w, value) ==
    restart([w EXCEPT !.inst._startTime = Max(0, value)],
            w.inst._state = STATE_PLAYING)

duration_set(w, value) ==
    restart([w EXCEPT !.inst._duration = Max(0, value)],
            w.inst._state = STATE_PLAYING)

----------------------------------------------------------------------------
(* External node chain *)

\* setFirstNode guessing that the connector always feeds the destination
setFirstNode_guess(w, firstNode) ==
    IF w.inst._firstNode # firstNode
    THEN Try(disconnect(w, Connector, Speakers),
             LAMBDA w1 :
                connect([w1 EXCEPT !.inst._firstNode = firstNode], Connector, firstNode))
    ELSE w

\* setExternalNodes: the `if (this._firstNode !== firstNode)` block
setFirstNode(w, firstNode) ==
    IF w.inst._firstNode # firstNode
    THEN Try(IF w.inst._firstNode # NoNode
             THEN disconnect(w, Connector, w.inst._firstNode)
             ELSE disconnect(w, Connector, Speakers),
             LAMBDA w1 :
                connect([w1 EXCEPT !.inst._firstNode = firstNode], Connector, firstNode))
    ELSE w

\* setLastNode leaving the previous last node connected to the destination
setLastNode_keep(w, lastNode) ==
    IF w.inst._lastNode # lastNode
    THEN connect([w EXCEPT !.inst._lastNode = lastNode], lastNode, Speakers)
    ELSE w

\* setExternalNodes: the `if (this._lastNode !== lastNode)` block
setLastNode(w, lastNode) ==
    IF w.inst._lastNode # lastNode
    THEN Try(IF w.inst._lastNode # NoNode
             THEN disconnect(w, w.inst._lastNode, Speakers)
             ELSE w,
             LAMBDA w1 :
                connect([w1 EXCEPT !.inst._lastNode = lastNode], lastNode, Speakers))
    ELSE w

setExternalNodes(w, firstNode, lastNode) ==
    IF firstNode = NoNode THEN [w EXCEPT !.obs.logged = TRUE]
    ELSE Try(setFirstNode(w, firstNode),
             LAMBDA w1 :
                setLastNode(w1, IF lastNode = NoNode THEN firstNode ELSE lastNode))

\* clearExternalNodes forgetting the last node
clearExternalNodes_first(w) ==
    Try(IF w.inst._firstNode # NoNode
        THEN Try(disconnect(w, Connector, w.inst._firstNode),
                 LAMBDA w1 : [w1 EXCEPT !.inst._firstNode = NoNode])
        ELSE w,
        LAMBDA w2 : connect(w2, Connector, Speakers))

clearExternalNodes(w) ==
    Try(IF w.inst._firstNode # NoNode
        THEN Try(disconnect(w, Connector, w.inst._firstNode),
                 LAMBDA w1 : [w1 EXCEPT !.inst._firstNode = NoNode])
        ELSE w,
        LAMBDA w2 :
            Try(IF w2.inst._lastNode # NoNode
                THEN Try(disconnect(w2, w2.inst._lastNode, Speakers),
                         LAMBDA w3 : [w3 EXCEPT !.inst._lastNode = NoNode])
                ELSE w2,
                LAMBDA w4 : connect(w4, Connector, Speakers)))

getExternalNodes(i) == <<i._firstNode, i._lastNode>>

----------------------------------------------------------------------------
(* Construction *)

\* new SoundInstance(manager, sound, options), the manager's volume being mv
SoundInstance(sound, volume, pitch, loop, startTime, duration, mv, suspended) ==
    LET i0 == [_volume |-> clamp(volume, 0, One),
               _pitch |-> Max(MinPitch, pitch),
               _loop |-> loop,
               _sound |-> sound,
               _state |-> STATE_STOPPED,
               _suspended |-> FALSE,
               _suspendEndEvent |-> FALSE,
               _suspendInstanceEvents |-> FALSE,
               _startTime |-> Max(0, startTime),
               _duration |-> Max(0, duration),
               _startedAt |-> 0,
               _startOffset |-> NULL,
               _currentTime |-> 0,
               _calculatedCurrentTimeAt |-> 0,
               _playWhenLoaded |-> TRUE,
               _firstNode |-> NoNode,
               _lastNode |-> NoNode,
               source |-> NoSource]
        w0 == [inst |-> i0,
               mgr |-> [volume |-> mv, suspended |-> suspended, listeners |-> 0],
               ctx |-> [currentTime |-> 0, gain |-> One * One,
                        edges |-> {<<Connector, Speakers>>}, ended |-> <<>>],
               obs |-> [op |-> "new", fired |-> <<>>, ret |-> "void", val |-> 0,
                        threw |-> "", starts |-> <<>>, stops |-> 0, disconnects |-> 0,
                        logged |-> FALSE, states |-> <<>>, calls |-> <<>>, preState |-> STATE_STOPPED,
                        preSource |-> "null", preOffset |-> NULL,
                        delivered |-> NoNote, arg |-> 0, first |-> NoNode,
                        last |-> NoNode, preNodes |-> <<NoNode, NoNode>>]]
    IN _createSource(w0)

\* the history at construction; `on` says whether the specification records one
NoHist(on) == [on |-> on, playedAt |-> 0, steady |-> FALSE, ppr |-> 0, pausedTime |-> 0]

Constructed(w, on) ==
    /\ inst = w.inst
    /\ mgr = w.mgr
    /\ ctx = w.ctx
    /\ obs = w.obs
    /\ hist = NoHist(on)

\* a call leaves the world w behind, and the history H(w)
Call(w, H(_)) ==
    /\ Len(w.ctx.ended) <= MaxInFlight
    /\ inst' = w.inst
    /\ mgr' = w.mgr
    /\ ctx' = w.ctx
    /\ obs' = w.obs
    /\ hist' = IF hist.on THEN H(w) ELSE hist

\* the history after a call that is not play, pause or resume
After(w, keepsSteady) ==
    [hist EXCEPT !.steady = @ /\ keepsSteady /\ w.inst._state = STATE_PLAYING,
                 !.ppr = 0, !.pausedTime = 0]

Breaks(w) == After(w, FALSE)

Keeps(w) == After(w, TRUE)

----------------------------------------------------------------------------
(* Calls of the owner *)

Play ==
    Call(play(Begin("play")),
         LAMBDA w :
            [hist EXCEPT !.playedAt = IF w.obs.ret = "true" THEN ctx.currentTime ELSE 0,
                         !.steady = w.obs.ret = "true" /\ w.inst._state = STATE_PLAYING,
                         !.ppr = IF w.obs.ret = "true" THEN 1 ELSE 0,
                         !.pausedTime = 0])

Pause ==
    Call(pause(Begin("pause")),
         LAMBDA w :
            [hist EXCEPT !.steady = FALSE,
                         !.ppr = IF w.obs.ret = "true" /\ hist.ppr = 1 THEN 2 ELSE 0,
                         !.pausedTime = IF w.obs.ret = "true" /\ hist.ppr = 1
                                        THEN currentTime_get(World).obs.val
                                        ELSE 0])

Resume ==
    Call(resume(Begin("resume")),
         LAMBDA w :
            [hist EXCEPT !.steady = FALSE,
                         !.ppr = IF w.obs.ret = "true" /\ hist.ppr = 2 THEN 3 ELSE 0,
                         !.pausedTime = IF w.obs.ret = "true" /\ hist.ppr = 2
                                        THEN @ ELSE 0])

Stop == Call(stop(Begin("stop")), Breaks)

GetCurrentTime ==
    Call(currentTime_get(Begin("currentTime")), LAMBDA w : hist)

SetCurrentTime(values) ==
    \E value \in values :
        Call(currentTime_set([Begin("currentTime=") EXCEPT !.obs.arg = value], value),
             Breaks)

SetPitch(values) ==
    \E pitch \in values :
        Call(pitch_set(Begin("pitch="), pitch),
             LAMBDA w : After(w, w.inst._pitch = inst._pitch))

SetVolume(values) ==
    \E volume \in values : Call(volume_set(Begin("volume="), volume), Keeps)

SetLoop ==
    \E loop \in BOOLEAN : Call(loop_set(Begin("loop="), loop), Keeps)

SetSound(values) ==
    \E value \in values : Call(sound_set(Begin("sound="), value), Breaks)

SetStartTime(values) ==
    \E value \in values : Call(startTime_set(Begin("startTime="), value), Breaks)

SetDuration(values) ==
    \E value \in values : Call(duration_set(Begin("duration="), value), Breaks)

SetExternalNodes(nodes) ==
    \E firstNode \in nodes \cup {NoNode}, lastNode \in nodes \cup {NoNode} :
        Call(setExternalNodes([Begin("setExternalNodes") EXCEPT !.obs.first = firstNode,
                                                                !.obs.last = lastNode],
                              firstNode, lastNode),
             Keeps)

ClearExternalNodes ==
    Call(clearExternalNodes(Begin("clearExternalNodes")), Keeps)

----------------------------------------------------------------------------
(* The platform: the audio clock and the sources' `ended` events *)

\* context.currentTime advances
Tick ==
    /\ ctx.currentTime < MaxClock
    /\ ctx' = [ctx EXCEPT !.currentTime = @ + 1]
    /\ hist' = [hist EXCEPT !.ppr = IF @ = 3 THEN 0 ELSE @,
                            !.pausedTime = IF hist.ppr = 3 THEN 0 ELSE @]
    /\ obs' = Begin("tick").obs
    /\ UNCHANGED <<inst, mgr>>

\* the playing source reaches the end of what it was asked to play:
\* its `ended` event is queued (a looping source never ends)
NaturalEnd ==
    /\ inst.source.status = "started"
    /\ ~inst.source.loop
    /\ Len(ctx.ended) < MaxInFlight
    /\ inst' = [inst EXCEPT !.source.status = "ended"]
    /\ ctx' = [ctx EXCEPT !.ended = Append(@, [cause |-> "natural", current |-> TRUE])]
    /\ obs' = Begin("end of source").obs
    /\ UNCHANGED <<mgr, hist>>

\* the oldest queued `ended` event is dispatched to source.onended
Ended ==
    /\ ctx.ended # <<>>
    /\ Call(_onEnded([Begin("onended") EXCEPT !.ctx.ended = Tail(@),
                                              !.obs.delivered = Head(ctx.ended)]),
            LAMBDA w : [hist EXCEPT !.steady = @ /\ w.inst._state = STATE_PLAYING])

----------------------------------------------------------------------------
(* The manager: its volume, its suspended flag and its four signals, which *)
(* reach the instance while it is subscribed                               *)

ManagerVolume(values) ==
    \E volume \in values :
        Call(IF mgr.listeners > 0
             THEN _onManagerVolumeChange([Begin("volumechange") EXCEPT
                                            !.mgr.volume = volume])
             ELSE [Begin("volumechange") EXCEPT !.mgr.volume = volume],
             Keeps)

ManagerSuspend ==
    Call(IF mgr.listeners > 0
         THEN _onManagerSuspend([Begin("suspend") EXCEPT !.mgr.suspended = TRUE])
         ELSE [Begin("suspend") EXCEPT !.mgr.suspended = TRUE],
         Keeps)

ManagerResume ==
    Call(IF mgr.listeners > 0
         THEN _onManagerResume([Begin("manager resume") EXCEPT !.mgr.suspended = FALSE])
         ELSE [Begin("manager resume") EXCEPT !.mgr.suspended = FALSE],
         Breaks)

ManagerDestroy ==
    Call(IF mgr.listeners > 0
         THEN _onManagerDestroy(Begin("destroy"))
         ELSE Begin("destroy"),
         Breaks)

----------------------------------------------------------------------------
(* The Audio-element ("Element") variant: the instance drives a clone of   *)
(* the resource's HTMLAudioElement.  An instance of this variant has the   *)
(* field _isReady and no position bookkeeping of its own: the position is  *)
(* the element's currentTime.                                              *)

\* a sound resource with an audio element of the given duration
Audio(d) == [kind |-> "audio", duration |-> d]

\* this.source = null (Element)
NoElement ==
    [status |-> "null", paused |-> TRUE, currentTime |-> 0, volume |-> One * One,
     playbackRate |-> One, loop |-> FALSE, loaded |-> FALSE, ended |-> FALSE,
     onmeta |-> FALSE, ontime |-> FALSE, duration |-> 0]

\* this._sound.audio.cloneNode(true) with its listeners attached
ClonedElement(d) ==
    [NoElement EXCEPT !.status = "element", !.onmeta = TRUE, !.ontime = TRUE,
                      !.duration = d]

\* a fresh observation for a call on the Element variant; prev is the
\* owner's previous call and prevRet what it returned
BeginElement(op) ==
    [World EXCEPT !.obs =
        [op |-> op, fired |-> <<>>, ret |-> "void", val |-> 0, threw |-> "",
         starts |-> <<>>, stops |-> 0, disconnects |-> 0, logged |-> FALSE, states |-> <<>>, calls |-> <<>>,
         preState |-> inst._state, preSource |-> inst.source.status,
         preOffset |-> inst._startOffset, delivered |-> NoNote,
         arg |-> 0, first |-> NoNode, last |-> NoNode,
         preNodes |-> <<NoNode, NoNode>>,
         prev |-> IF obs.op \in {"tick", "loadedmetadata", "onended", "new"}
                  THEN obs.prev ELSE obs.op,
         prevRet |-> IF obs.op \in {"tick", "loadedmetadata", "onended", "new"}
                     THEN obs.prevRet ELSE obs.ret,
         prePosition |-> inst.source.currentTime]]

\* source.play(): playback continues from the element's position; an element
\* that has ended starts over
sourcePlay(w) ==
    [w EXCEPT !.inst.source.paused = FALSE,
              !.inst.source.ended = FALSE,
              !.inst.source.currentTime = IF w.inst.source.ended THEN 0 ELSE @,
              !.obs.starts =
                    Append(@, IF w.inst.source.ended THEN 0
                              ELSE w.inst.source.currentTime),
              !.obs.calls = Append(@, "start")]

\* source.pause()
sourcePause(w) ==
    [w EXCEPT !.inst.source.paused = TRUE, !.obs.stops = @ + 1]

\* source.currentTime = offset
sourceSeek(w, offset) ==
    [w EXCEPT !.inst.source.currentTime = Min(offset, w.inst.source.duration),
              !.inst.source.ended = FALSE]

volume_set_Element(w, volume) ==
    [w EXCEPT !.inst._volume = clamp(volume, 0, One),
              !.inst.source.volume =
                    IF w.inst.source.status # "null"
                    THEN clamp(volume, 0, One) * w.mgr.volume ELSE @,
              !.obs.calls =
                    IF w.inst.source.status # "null" THEN Append(@, "volume") ELSE @]

pitch_set_Element(w, pitch) ==
    [w EXCEPT !.inst._pitch = Max(pitch, MinPitch),
              !.inst.source.playbackRate =
                    IF w.inst.source.status # "null" THEN Max(pitch, MinPitch) ELSE @,
              !.obs.calls =
                    IF w.inst.source.status # "null" THEN Append(@, "pitch") ELSE @]

loop_set_Element(w, loop) ==
    [w EXCEPT !.inst._loop = loop,
              !.inst.source.loop =
                    IF w.inst.source.status # "null" THEN loop ELSE @,
              !.obs.calls =
                    IF w.inst.source.status # "null" THEN Append(@, "loop") ELSE @]

_createSource_Element(w) ==
    IF w.inst._sound.kind = "audio"
    THEN Fire([w EXCEPT !.inst._isReady = FALSE,
                        !.inst.source = ClonedElement(w.inst._sound.duration),
                        !.ctx.ended = Stale(@)],
              "ready")
    ELSE w

_onLoadedMetadata(w) ==
    sourceSeek([w EXCEPT !.inst.source.onmeta = FALSE,
                         !.inst._isReady = TRUE,
                         !.inst._startOffset = NULL],
               seekOffset(w.inst))

pause_Element(w) ==
    IF w.inst.source.status = "null" \/ w.inst._state # STATE_PLAYING
    THEN Ret(w, "false")
    ELSE Ret(Fire(sourcePause([w EXCEPT !.inst._suspendEndEvent = TRUE,
                                        !.inst._playWhenLoaded = FALSE,
                                        !.inst._state = STATE_PAUSED,
                                        !.obs.states = Append(@, STATE_PAUSED),
                                        !.inst._startOffset = NULL]),
                  "pause"),
             "true")

resume_Element(w) ==
    IF w.inst.source.status = "null" \/ w.inst._state # STATE_PAUSED
    THEN Ret(w, "false")
    ELSE Ret(IF w.inst.source.paused
             THEN Fire(sourcePlay([w EXCEPT !.inst._state = STATE_PLAYING,
                                            !.obs.states = Append(@, STATE_PLAYING),
                                            !.inst._playWhenLoaded = FALSE]),
                       "resume")
             ELSE [w EXCEPT !.inst._state = STATE_PLAYING,
                            !.obs.states = Append(@, STATE_PLAYING),
                            !.inst._playWhenLoaded = FALSE],
             "true")

stop_Element(w) ==
    IF w.inst.source.status = "null" \/ w.inst._state = STATE_STOPPED
    THEN Ret(w, "false")
    ELSE Ret(Fire(sourcePause([w EXCEPT !.mgr.listeners = 0,
                                        !.inst._suspendEndEvent = TRUE,
                                        !.inst._playWhenLoaded = FALSE,
                                        !.inst._state = STATE_STOPPED,
                                        !.obs.states = Append(@, STATE_STOPPED),
                                        !.inst._startOffset = NULL]),
                  "stop"),
             "true")

_onManagerVolumeChange_Element(w) == volume_set_Element(w, w.inst._volume)

_onManagerSuspend_Element(w) ==
    IF w.inst._state = STATE_PLAYING /\ ~w.inst._suspended
    THEN pause_Element([w EXCEPT !.inst._suspended = TRUE])
    ELSE w

_onManagerResume_Element(w) ==
    IF w.inst._suspended
    THEN resume_Element([w EXCEPT !.inst._suspended = FALSE])
    ELSE w

_onManagerDestroy_Element(w) ==
    IF w.inst.source.status # "null" THEN sourcePause(w) ELSE w

\* play() from `if (! this.source)` on
playStopped_Element(w) ==
    IF w.inst.source.status = "null" THEN Ret(w, "false")
    ELSE With(sourcePlay(loop_set_Element(
                            pitch_set_Element(
                                volume_set_Element(w, w.inst._volume),
                                w.inst._pitch),
                            w.inst._loop)),
              LAMBDA w1 :
                With([w1 EXCEPT !.inst._state = STATE_PLAYING,
                                !.obs.states = Append(@, STATE_PLAYING),
                                !.inst._playWhenLoaded = FALSE,
                                !.mgr.listeners = @ + 1],
                     LAMBDA w2 :
                        With(IF w2.mgr.suspended
                             THEN _onManagerSuspend_Element(w2) ELSE w2,
                             LAMBDA w3 : Ret(Fire(w3, "play"), "true"))))

play_Element(w) ==
    With(IF w.inst._state # STATE_STOPPED THEN stop_Element(w) ELSE w,
         playStopped_Element)

_onEnded_Element(w) ==
    IF w.inst._suspendEndEvent
    THEN [w EXCEPT !.inst._suspendEndEvent = FALSE]
    ELSE Ret(stop_Element(FireAlways(w, "end")), "void")

\* the handler of the element's `timeupdate` event
_onTimeUpdate(w) ==
    IF w.inst._duration = 0 THEN w
    ELSE IF w.inst.source.currentTime
                > capTime(w.inst._startTime + w.inst._duration, w.inst.source.duration)
    THEN IF w.inst._loop
         THEN sourceSeek(w, capTime(w.inst._startTime, w.inst.source.duration))
         ELSE _onEnded_Element(sourcePause([w EXCEPT !.inst.source.ontime = FALSE]))
    ELSE w

sound_set_Element(w, value) ==
    With(stop_Element(w), LAMBDA w1 :
        Ret(_createSource_Element([w1 EXCEPT !.inst._sound = value]), "void"))

currentTime_get_Element(w) ==
    IF w.inst._startOffset # NULL
    THEN [w EXCEPT !.obs.ret = "value", !.obs.val = Num(w.inst._startOffset)]
    ELSE IF w.inst._state = STATE_STOPPED \/ w.inst.source.status = "null"
    THEN [w EXCEPT !.obs.ret = "value", !.obs.val = 0]
    ELSE [w EXCEPT !.obs.ret = "value",
                   !.obs.val = w.inst.source.currentTime - w.inst._startTime]

currentTime_set_Element(w, value) ==
    IF value < 0 THEN w
    ELSE IF w.inst.source.status # "null" /\ w.inst._isReady
    THEN With([w EXCEPT !.inst._startOffset = <<value>>], LAMBDA w1 :
            sourceSeek([w1 EXCEPT !.inst._startOffset = NULL], seekOffset(w1.inst)))
    ELSE [w EXCEPT !.inst._startOffset = <<value>>]

\* the tail shared by the startTime and duration setters, on this variant
restart_Element(w, isPlaying) ==
    With(stop_Element(w), LAMBDA w1 :
        Ret(IF isPlaying THEN play_Element(w1) ELSE w1, "void"))

startTime_set_Element(w, value) ==
    restart_Element([w EXCEPT !.inst._startTime = Max(0, value)],
                    w.inst._state = STATE_PLAYING)

duration_set_Element(w, value) ==
    restart_Element([w EXCEPT !.inst._duration = Max(0, value)],
                    w.inst._state = STATE_PLAYING)

\* new SoundInstance(manager, sound, options) on the Element variant
SoundInstance_Element(sound, volume, pitch, loop, startTime, duration, mv, suspended) ==
    _createSource_Element(
        [inst |-> [_volume |-> clamp(volume, 0, One),
                   _pitch |-> Max(MinPitch, pitch),
                   _loop |-> loop,
                   _sound |-> sound,
                   _state |-> STATE_STOPPED,
                   _suspended |-> FALSE,
                   _suspendEndEvent |-> FALSE,
                   _suspendInstanceEvents |-> FALSE,
                   _playWhenLoaded |-> TRUE,
                   _startTime |-> Max(0, startTime),
                   _duration |-> Max(0, duration),
                   _startOffset |-> NULL,
                   _isReady |-> FALSE,
                   source |-> NoElement],
         mgr |-> [volume |-> mv, suspended |-> suspended, listeners |-> 0],
         ctx |-> [currentTime |-> 0, ended |-> <<>>],
         obs |-> [op |-> "new", fired |-> <<>>, ret |-> "void", val |-> 0,
                  threw |-> "", starts |-> <<>>, stops |-> 0, disconnects |-> 0,
                  logged |-> FALSE, states |-> <<>>, calls |-> <<>>, preState |-> STATE_STOPPED,
                  preSource |-> "null", preOffset |-> NULL,
                  delivered |-> NoNote, arg |-> 0, first |-> NoNode,
                  last |-> NoNode, preNodes |-> <<NoNode, NoNode>>,
                  prev |-> "new", prevRet |-> "void", prePosition |-> 0]])

\* which variant the instance in the current state is
IsElement == "_isReady" \in DOMAIN inst

(* Calls of the owner, Element variant *)

ElementPlay == Call(play_Element(BeginElement("play")), LAMBDA w : hist)

ElementPause == Call(pause_Element(BeginElement("pause")), LAMBDA w : hist)

ElementResume == Call(resume_Element(BeginElement("resume")), LAMBDA w : hist)

ElementStop == Call(stop_Element(BeginElement("stop")), LAMBDA w : hist)

ElementGetCurrentTime ==
    Call(currentTime_get_Element(BeginElement("currentTime")), LAMBDA w : hist)

ElementSetCurrentTime(values) ==
    \E value \in values :
        Call(currentTime_set_Element(
                [BeginElement("currentTime=") EXCEPT !.obs.arg = value], value),
             LAMBDA w : hist)

ElementSetVolume(values) ==
    \E volume \in values :
        Call(volume_set_Element(BeginElement("volume="), volume), LAMBDA w : hist)

ElementSetPitch(values) ==
    \E pitch \in values :
        Call(pitch_set_Element(BeginElement("pitch="), pitch), LAMBDA w : hist)

ElementSetLoop ==
    \E loop \in BOOLEAN :
        Call(loop_set_Element(BeginElement("loop="), loop), LAMBDA w : hist)

ElementSetSound(values) ==
    \E value \in values :
        Call(sound_set_Element(BeginElement("sound="), value), LAMBDA w : hist)

ElementSetStartTime(values) ==
    \E value \in values :
        Call(startTime_set_Element(BeginElement("startTime="), value),
             LAMBDA w : hist)

ElementSetDuration(values) ==
    \E value \in values :
        Call(duration_set_Element(BeginElement("duration="), value),
             LAMBDA w : hist)

(* The platform, Element variant *)

\* one second of playback of an element that is playing
elementAdvance(w) ==
    IF w.inst.source.currentTime + w.inst.source.playbackRate < w.inst.source.duration
    THEN [w EXCEPT !.inst.source.currentTime = @ + w.inst.source.playbackRate]
    ELSE IF w.inst.source.loop
    THEN [w EXCEPT !.inst.source.currentTime =
                        capTime(@ + w.inst.source.playbackRate, w.inst.source.duration)]
    ELSE [w EXCEPT !.inst.source.currentTime = w.inst.source.duration,
                   !.inst.source.ended = TRUE,
                   !.ctx.ended = Append(@, [cause |-> "natural", current |-> TRUE])]

\* the element's metadata arrives: `loadedmetadata` is dispatched
LoadedMetadata ==
    /\ inst.source.status = "element"
    /\ ~inst.source.loaded
    /\ Call(IF inst.source.onmeta
            THEN _onLoadedMetadata([BeginElement("loadedmetadata") EXCEPT
                                        !.inst.source.loaded = TRUE])
            ELSE [BeginElement("loadedmetadata") EXCEPT !.inst.source.loaded = TRUE],
            LAMBDA w : hist)

\* the clock advances by a second; an element that is playing moves on and
\* dispatches `timeupdate` (noted in obs.delivered, with the position the
\* element has reached in obs.val), which reaches the instance's handler
\* while it is attached
ElementTick ==
    /\ ctx.currentTime < MaxClock
    /\ Call(IF /\ inst.source.status = "element" /\ inst.source.loaded
               /\ ~inst.source.paused /\ ~inst.source.ended
            THEN With(elementAdvance([BeginElement("tick") EXCEPT
                                        !.ctx.currentTime = @ + 1]),
                      LAMBDA w :
                        With([w EXCEPT !.obs.delivered =
                                            [cause |-> "timeupdate", current |-> TRUE],
                                       !.obs.val = w.inst.source.currentTime],
                             LAMBDA w1 : IF w1.inst.source.ontime
                                         THEN _onTimeUpdate(w1) ELSE w1))
            ELSE [BeginElement("tick") EXCEPT !.ctx.currentTime = @ + 1],
            LAMBDA w : hist)

\* the oldest queued `ended` event is dispatched to source.onended
ElementEnded ==
    /\ ctx.ended # <<>>
    /\ Call(_onEnded_Element([BeginElement("onended") EXCEPT
                                !.ctx.ended = Tail(@),
                                !.obs.delivered = Head(ctx.ended)]),
            LAMBDA w : hist)

(* The manager, Element variant *)

ElementManagerVolume(values) ==
    \E volume \in values :
        Call(IF mgr.listeners > 0
             THEN _onManagerVolumeChange_Element(
                        [BeginElement("volumechange") EXCEPT !.mgr.volume = volume])
             ELSE [BeginElement("volumechange") EXCEPT !.mgr.volume = volume],
             LAMBDA w : hist)

ElementManagerSuspend ==
    Call(IF mgr.listeners > 0
         THEN _onManagerSuspend_Element(
                    [BeginElement("suspend") EXCEPT !.mgr.suspended = TRUE])
         ELSE [BeginElement("suspend") EXCEPT !.mgr.suspended = TRUE],
         LAMBDA w : hist)

ElementManagerResume ==
    Call(IF mgr.listeners > 0
         THEN _onManagerResume_Element(
                    [BeginElement("manager resume") EXCEPT !.mgr.suspended = FALSE])
         ELSE [BeginElement("manager resume") EXCEPT !.mgr.suspended = FALSE],
         LAMBDA w : hist)

ElementManagerDestroy ==
    Call(IF mgr.listeners > 0
         THEN _onManagerDestroy_Element(BeginElement("destroy"))
         ELSE BeginElement("destroy"),
         LAMBDA w : hist)

----------------------------------------------------------------------------
(* Inputs *)

ReadySound == Decoded(10 * Sec)
ShortSound == Decoded(4 * Sec)
ExternalNodes == {"A", "B", "C"}

----------------------------------------------------------------------------
(* Spec: the playback state machine with the sources' `ended` events and   *)
(* the manager's signals.  The clock stands still.                         *)

Init ==
    \E sound \in {NoSound, ReadySound}, suspended \in BOOLEAN :
        Constructed(SoundInstance(sound, One, One, FALSE, 0, 0, One, suspended), FALSE)

Next ==
    \/ Play
    \/ Pause
    \/ Resume
    \/ Stop
    \/ SetCurrentTime({Sec})
    \/ SetSound({NoSound, ReadySound})
    \/ SetStartTime({0, 2 * Sec})
    \/ NaturalEnd
    \/ Ended
    \/ ManagerSuspend
    \/ ManagerResume
    \/ ManagerDestroy

Spec == Init /\ [][Next]_vars

----------------------------------------------------------------------------
(* SpecTime: the logical position under a moving clock *)

InitTime ==
    \E duration \in {0, 3 * Sec} :
        Constructed(SoundInstance(ReadySound, One, One, FALSE, 2 * Sec, duration,
                                  One, FALSE), TRUE)

NextTime ==
    \/ Tick
    \/ Play
    \/ Pause
    \/ Resume
    \/ Stop
    \/ GetCurrentTime
    \/ SetCurrentTime({Sec})
    \/ SetPitch({One, 2 * One})
    \/ Ended

SpecTime == InitTime /\ [][NextTime]_vars

----------------------------------------------------------------------------
(* SpecSeek: where playback starts, over windows and seek targets *)

InitSeek ==
    \E sound \in {ReadySound, ShortSound}, startTime \in {0, 2 * Sec, 3 * Sec},
       duration \in {0, 3 * Sec} :
        Constructed(SoundInstance(sound, One, One, FALSE, startTime, duration,
                                  One, FALSE), FALSE)

NextSeek ==
    \/ Play
    \/ Pause
    \/ Resume
    \/ Stop
    \/ SetCurrentTime({0 - Sec, 0, Sec, 4 * Sec})
    \/ Ended

SpecSeek == InitSeek /\ [][NextSeek]_vars

----------------------------------------------------------------------------
(* SpecNodes: the external node chain *)

InitNodes ==
    Constructed(SoundInstance(ReadySound, One, One, FALSE, 0, 0, One, FALSE), FALSE)

NextNodes ==
    \/ SetExternalNodes(ExternalNodes)
    \/ ClearExternalNodes
    \/ Play
    \/ Stop
    \/ Ended

SpecNodes == InitNodes /\ [][NextNodes]_vars

----------------------------------------------------------------------------
(* SpecElement: the Element variant under a moving clock *)

ReadyAudio == Audio(10 * Sec)

ShortAudio == Audio(3 * Sec)

InitElement ==
    \E sound \in {ReadyAudio, ShortAudio}, startTime \in {0, 2 * Sec} :
        Constructed(SoundInstance_Element(sound, One, One, FALSE, startTime, 0,
                                          One, FALSE), FALSE)

NextElement ==
    \/ LoadedMetadata
    \/ ElementTick
    \/ ElementPlay
    \/ ElementPause
    \/ ElementResume
    \/ ElementStop
    \/ ElementSetCurrentTime({Sec})
    \/ ElementEnded

SpecElement == InitElement /\ [][NextElement]_vars

----------------------------------------------------------------------------
(* SpecWindow: changes of the playback window (startTime, duration) *)

InitWindow ==
    \E startTime \in {0, 2 * Sec}, duration \in {0, 3 * Sec}, suspended \in BOOLEAN :
        Constructed(SoundInstance(ReadySound, One, One, FALSE, startTime, duration,
                                  One, suspended), FALSE)

NextWindow ==
    \/ Play
    \/ Pause
    \/ Resume
    \/ Stop
    \/ SetStartTime({0, 2 * Sec, 12 * Sec})
    \/ SetDuration({0, 3 * Sec})
    \/ Ended
    \/ ManagerSuspend
    \/ ManagerResume

SpecWindow == InitWindow /\ [][NextWindow]_vars

----------------------------------------------------------------------------
(* SpecPitch: play(), one change of pitch, one read of currentTime, with   *)
(* the clock moving in between.  The history records the clock at play()   *)
(* (playedAt) and at the change (t1) and the pitch before the change (p1); *)
(* phase counts how far the sequence play, pitch =, read has come.         *)

PitchHist ==
    [on |-> TRUE, playedAt |-> 0, steady |-> FALSE, ppr |-> 0, pausedTime |-> 0,
     phase |-> 0, p1 |-> 0, t1 |-> 0]

\* the state after construction, with the history h
Started(w, h) ==
    /\ inst = w.inst
    /\ mgr = w.mgr
    /\ ctx = w.ctx
    /\ obs = w.obs
    /\ hist = h

InitPitch ==
    \E pitch \in {One, 2 * One}, duration \in {0, 3 * Sec} :
        Started(SoundInstance(ReadySound, One, pitch, FALSE, 0, duration, One, FALSE),
                PitchHist)

PitchPlay ==
    Call(play(Begin("play")),
         LAMBDA w :
            [hist EXCEPT !.playedAt = ctx.currentTime,
                         !.phase = IF w.obs.ret = "true" /\ w.inst._state = STATE_PLAYING
                                   THEN 1 ELSE 0,
                         !.p1 = w.inst._pitch,
                         !.t1 = 0])

PitchChange(values) ==
    \E pitch \in values :
        Call(pitch_set(Begin("pitch="), pitch),
             LAMBDA w : [hist EXCEPT !.phase = IF @ = 1 THEN 2 ELSE 0,
                                     !.t1 = ctx.currentTime])

PitchRead ==
    Call(currentTime_get(Begin("currentTime")),
         LAMBDA w : [hist EXCEPT !.phase = IF @ = 2 THEN 3 ELSE 0])

PitchStop ==
    Call(stop(Begin("stop")), LAMBDA w : [hist EXCEPT !.phase = 0])

NextPitch ==
    \/ Tick
    \/ PitchPlay
    \/ PitchChange({One, 2 * One, 3 * One})
    \/ PitchRead
    \/ PitchStop
    \/ Ended

SpecPitch == InitPitch /\ [][NextPitch]_vars

----------------------------------------------------------------------------
(* SpecSuspend: the owner's calls against the manager's suspend and resume *)
(* signals.  The history records who made the pause the instance is in     *)
(* (pausedBy: "user", "manager" or "" when it is not Paused), and who had  *)
(* made it before the most recent call (wasPausedBy).                      *)

SuspendHist == [on |-> TRUE, pausedBy |-> "", wasPausedBy |-> ""]

\* the history after a call that left the world w; a pause the call made
\* is by `cause`
PausedBy(w, cause) ==
    [hist EXCEPT !.wasPausedBy = hist.pausedBy,
                 !.pausedBy = IF w.inst._state # STATE_PAUSED THEN ""
                              ELSE IF inst._state = STATE_PAUSED THEN @
                              ELSE cause]

InitSuspend ==
    \E suspended \in BOOLEAN :
        Started(SoundInstance(ReadySound, One, One, FALSE, 0, 0, One, suspended),
                SuspendHist)

\* play() stops the instance first: a pause it ends in is the manager's
SuspendPlay ==
    Call(play(Begin("play")),
         LAMBDA w : [hist EXCEPT !.wasPausedBy = hist.pausedBy,
                                 !.pausedBy = IF w.inst._state = STATE_PAUSED
                                              THEN IF w.obs.ret = "true"
                                                   THEN "manager" ELSE @
                                              ELSE ""])

SuspendPause == Call(pause(Begin("pause")), LAMBDA w : PausedBy(w, "user"))

SuspendResume == Call(resume(Begin("resume")), LAMBDA w : PausedBy(w, ""))

SuspendStop == Call(stop(Begin("stop")), LAMBDA w : PausedBy(w, ""))

SuspendEnded ==
    /\ ctx.ended # <<>>
    /\ Call(_onEnded([Begin("onended") EXCEPT !.ctx.ended = Tail(@),
                                              !.obs.delivered = Head(ctx.ended)]),
            LAMBDA w : PausedBy(w, ""))

SuspendSignal ==
    Call(IF mgr.listeners > 0
         THEN _onManagerSuspend([Begin("suspend") EXCEPT !.mgr.suspended = TRUE])
         ELSE [Begin("suspend") EXCEPT !.mgr.suspended = TRUE],
         LAMBDA w : PausedBy(w, "manager"))

ResumeSignal ==
    Call(IF mgr.listeners > 0
         THEN _onManagerResume([Begin("manager resume") EXCEPT !.mgr.suspended = FALSE])
         ELSE [Begin("manager resume") EXCEPT !.mgr.suspended = FALSE],
         LAMBDA w : PausedBy(w, ""))

NextSuspend ==
    \/ SuspendPlay
    \/ SuspendPause
    \/ SuspendResume
    \/ SuspendStop
    \/ SuspendEnded
    \/ SuspendSignal
    \/ ResumeSignal

SpecSuspend == InitSuspend /\ [][NextSuspend]_vars

----------------------------------------------------------------------------
(* SpecVolume: volume assignments against the manager's volume changes, on *)
(* an instance of either variant                                           *)

Volumes == {0 - 50, 50, One, 150}
ManagerVolumes == {0, 50, One}

InitVolume ==
    \E volume \in {50, One}, mv \in {50, One} :
        \/ Constructed(SoundInstance(ReadySound, volume, One, FALSE, 0, 0, mv, FALSE),
                       FALSE)
        \/ Constructed(SoundInstance_Element(ReadyAudio, volume, One, FALSE, 0, 0, mv,
                                             FALSE), FALSE)

NextVolume ==
    \/ ~IsElement /\ Play
    \/ ~IsElement /\ Pause
    \/ ~IsElement /\ Resume
    \/ ~IsElement /\ Stop
    \/ ~IsElement /\ Ended
    \/ ~IsElement /\ SetVolume(Volumes)
    \/ ~IsElement /\ ManagerVolume(ManagerVolumes)
    \/ IsElement /\ LoadedMetadata
    \/ IsElement /\ ElementPlay
    \/ IsElement /\ ElementPause
    \/ IsElement /\ ElementResume
    \/ IsElement /\ ElementStop
    \/ IsElement /\ ElementSetVolume(Volumes)
    \/ IsElement /\ ElementManagerVolume(ManagerVolumes)

SpecVolume == InitVolume /\ [][NextVolume]_vars

----------------------------------------------------------------------------
(* SpecDuration: the `duration` property over resources, start times and   *)
(* window durations, every start time inside its resource                  *)

\* a read of the duration property
GetDuration ==
    Call([Begin("duration") EXCEPT !.obs.ret = "value", !.obs.val = duration_get(inst)],
         Keeps)

InitDuration ==
    \E sound \in {ReadySound, ShortSound},
       startTime \in {0, 2 * Sec}, duration \in {0, 3 * Sec, 10 * Sec} :
        Constructed(SoundInstance(sound, One, One, FALSE, startTime, duration,
                                  One, FALSE), FALSE)

NextDuration ==
    \/ GetDuration
    \/ SetStartTime({0, 2 * Sec})
    \/ SetDuration({0, 3 * Sec, 10 * Sec})
    \/ Play
    \/ Stop
    \/ Ended

SpecDuration == InitDuration /\ [][NextDuration]_vars

----------------------------------------------------------------------------
(* SpecLifecycle: every way the state of an instance of either variant can *)
(* change: the owner's calls, seeks, sound swaps, window changes, the ends *)
(* of sources and the manager's signals                                    *)

InitLifecycle ==
    \E suspended \in BOOLEAN :
        \/ Constructed(SoundInstance(ReadySound, One, One, FALSE, 0, 0, One, suspended),
                       FALSE)
        \/ Constructed(SoundInstance_Element(ShortAudio, One, One, FALSE, 0, 2 * Sec,
                                             One, suspended), FALSE)

NextLifecycle ==
    \/ ~IsElement /\ Play
    \/ ~IsElement /\ Pause
    \/ ~IsElement /\ Resume
    \/ ~IsElement /\ Stop
    \/ ~IsElement /\ SetCurrentTime({Sec})
    \/ ~IsElement /\ SetSound({NoSound, ReadySound})
    \/ ~IsElement /\ SetStartTime({2 * Sec})
    \/ ~IsElement /\ NaturalEnd
    \/ ~IsElement /\ Ended
    \/ ~IsElement /\ ManagerSuspend
    \/ ~IsElement /\ ManagerResume
    \/ ~IsElement /\ ManagerDestroy
    \/ IsElement /\ LoadedMetadata
    \/ IsElement /\ ElementTick
    \/ IsElement /\ ElementPlay
    \/ IsElement /\ ElementPause
    \/ IsElement /\ ElementResume
    \/ IsElement /\ ElementStop
    \/ IsElement /\ ElementSetSound({NoSound, ShortAudio})
    \/ IsElement /\ ElementSetDuration({0, 2 * Sec})
    \/ IsElement /\ ElementEnded
    \/ IsElement /\ ElementManagerSuspend
    \/ IsElement /\ ElementManagerResume
    \/ IsElement /\ ElementManagerDestroy

SpecLifecycle == InitLifecycle /\ [][NextLifecycle]_vars

----------------------------------------------------------------------------
(* SpecFrozen: reads of currentTime while Paused, with the clock moving and *)
(* volume, pitch and loop assigned in between.  The history records the     *)
(* position pause() froze (frozen), while the instance is in that pause.    *)

FrozenHist ==
    [on |-> TRUE, playedAt |-> 0, steady |-> FALSE, ppr |-> 0, pausedTime |-> 0,
     frozen |-> NULL]

\* the history after a call: the position frozen by a pause() that paused,
\* kept for as long as the instance stays Paused
Frozen(w) ==
    [hist EXCEPT !.frozen = IF w.inst._state # STATE_PAUSED THEN NULL
                            ELSE IF w.obs.op = "pause" /\ w.obs.ret = "true"
                            THEN <<w.inst._currentTime>>
                            ELSE @]

InitFrozen ==
    \E duration \in {0, 3 * Sec} :
        Started(SoundInstance(ReadySound, One, One, FALSE, 0, duration, One, FALSE),
                FrozenHist)

FrozenPlay == Call(play(Begin("play")), Frozen)

FrozenPause == Call(pause(Begin("pause")), Frozen)

FrozenResume == Call(resume(Begin("resume")), Frozen)

FrozenStop == Call(stop(Begin("stop")), Frozen)

FrozenRead == Call(currentTime_get(Begin("currentTime")), Frozen)

FrozenSetVolume(values) ==
    \E volume \in values : Call(volume_set(Begin("volume="), volume), Frozen)

FrozenSetPitch(values) ==
    \E pitch \in values : Call(pitch_set(Begin("pitch="), pitch), Frozen)

FrozenSetLoop ==
    \E loop \in BOOLEAN : Call(loop_set(Begin("loop="), loop), Frozen)

FrozenEnded ==
    /\ ctx.ended # <<>>
    /\ Call(_onEnded([Begin("onended") EXCEPT !.ctx.ended = Tail(@),
                                              !.obs.delivered = Head(ctx.ended)]),
            Frozen)

NextFrozen ==
    \/ Tick
    \/ FrozenPlay
    \/ FrozenPause
    \/ FrozenResume
    \/ FrozenStop
    \/ FrozenRead
    \/ FrozenSetVolume({50})
    \/ FrozenSetPitch({One, 2 * One})
    \/ FrozenSetLoop
    \/ FrozenEnded

SpecFrozen == InitFrozen /\ [][NextFrozen]_vars

----------------------------------------------------------------------------
(* SpecSwap: swaps of the sound resource (decoded, not decoded, null)       *)
(* between the owner's calls, seeks and window changes                      *)

InitSwap ==
    \E sound \in {ReadySound, NoSound} :
        Constructed(SoundInstance(sound, One, One, FALSE, 0, 0, One, FALSE), FALSE)

NextSwap ==
    \/ Play
    \/ Pause
    \/ Resume
    \/ Stop
    \/ SetCurrentTime({Sec})
    \/ SetStartTime({Sec})
    \/ SetSound({NoSound, Undecoded, ReadySound, ShortSound})
    \/ Ended

SpecSwap == InitSwap /\ [][NextSwap]_vars

----------------------------------------------------------------------------
(* SpecElementWindow: the Element variant playing a window of one second,   *)
(* looping or not, under a moving clock                                     *)

InitElementWindow ==
    \E loop \in BOOLEAN :
        Constructed(SoundInstance_Element(ShortAudio, One, One, loop, 0, Sec, One,
                                          FALSE), FALSE)

NextElementWindow ==
    \/ LoadedMetadata
    \/ ElementTick
    \/ ElementPlay
    \/ ElementPause
    \/ ElementResume
    \/ ElementStop
    \/ ElementGetCurrentTime
    \/ ElementEnded

SpecElementWindow == InitElementWindow /\ [][NextElementWindow]_vars

----------------------------------------------------------------------------
(* SpecSeekRead: assignments to currentTime followed by reads, in every     *)
(* state.  The history records the value the owner's previous call assigned *)
(* to currentTime (sought), and, after a read, the value assigned by the    *)
(* call right before that read (checked).                                   *)

SeekHist ==
    [on |-> TRUE, playedAt |-> 0, steady |-> FALSE, ppr |-> 0, pausedTime |-> 0,
     sought |-> NULL, checked |-> NULL]

\* the history after a call that neither assigns nor reads currentTime
Unsought(w) == [hist EXCEPT !.sought = NULL, !.checked = NULL]

InitSeekRead ==
    \E duration \in {0, 3 * Sec} :
        Started(SoundInstance(ReadySound, One, One, FALSE, 0, duration, One, FALSE),
                SeekHist)

SeekTick ==
    /\ ctx.currentTime < MaxClock
    /\ ctx' = [ctx EXCEPT !.currentTime = @ + 1]
    /\ hist' = Unsought(World)
    /\ obs' = Begin("tick").obs
    /\ UNCHANGED <<inst, mgr>>

SeekPlay == Call(play(Begin("play")), Unsought)

SeekPause == Call(pause(Begin("pause")), Unsought)

SeekResume == Call(resume(Begin("resume")), Unsought)

SeekStop == Call(stop(Begin("stop")), Unsought)

SeekEnded ==
    /\ ctx.ended # <<>>
    /\ Call(_onEnded([Begin("onended") EXCEPT !.ctx.ended = Tail(@),
                                              !.obs.delivered = Head(ctx.ended)]),
            Unsought)

SeekAssign(values) ==
    \E value \in values :
        Call(currentTime_set([Begin("currentTime=") EXCEPT !.obs.arg = value], value),
             LAMBDA w : [hist EXCEPT !.sought = IF inst.source.status # "null"
                                               THEN <<value>> ELSE NULL,
                                     !.checked = NULL])

SeekRead ==
    Call(currentTime_get(Begin("currentTime")),
         LAMBDA w : [hist EXCEPT !.sought = NULL, !.checked = hist.sought])

NextSeekRead ==
    \/ SeekTick
    \/ SeekPlay
    \/ SeekPause
    \/ SeekResume
    \/ SeekStop
    \/ SeekEnded
    \/ SeekAssign({0, Sec, 2 * Sec})
    \/ SeekRead

SpecSeekRead == InitSeekRead /\ [][NextSeekRead]_vars

----------------------------------------------------------------------------
(* Properties *)

\* how many times the most recent call fired the event ev
Fired(ev) == Cardinality({k \in 1..Len(obs.fired) : obs.fired[k] = ev})

\* the most recent call fired ev1 and, later, ev2
FiredInOrder(ev1, ev2) ==
    \E a, b \in 1..Len(obs.fired) :
        a < b /\ obs.fired[a] = ev1 /\ obs.fired[b] = ev2

\* the gain the backend applies: gain.gain.value, or the element's volume
Gain == IF IsElement THEN inst.source.volume ELSE ctx.gain

\* what a read of the currentTime property returns in this state
CurrentTime == currentTime_get(World).obs.val

(* C1: Graph backend: an `ended` event queued by a programmatic teardown   *)
(* (stop(), pause(), or a currentTime assignment while Playing) never      *)
(* emits `end` and never changes the state when it is delivered.           *)
C1_TeardownEndedIsIgnored ==
    (obs.op = "onended" /\ obs.delivered.cause = "teardown")
        => (Fired("end") = 0 /\ inst._state = obs.preState)

(* C2: Graph backend: when the source that is playing ends on its own and  *)
(* its `ended` event is delivered, the instance emits `end` exactly once,  *)
(* then `stop`, and becomes Stopped, whatever happened before.             *)
C2_NaturalEndStops ==
    (/\ obs.op = "onended"
     /\ obs.delivered = [cause |-> "natural", current |-> TRUE]
     /\ obs.preState = STATE_PLAYING)
        => (/\ Fired("end") = 1
            /\ FiredInOrder("end", "stop")
            /\ inst._state = STATE_STOPPED)

(* C3: Graph backend: after play(), pause(), resume() the state is Playing *)
(* and currentTime read right after resume() equals currentTime at the     *)
(* moment pause() was called, however long the instance was paused.        *)
C3_ResumeKeepsPosition ==
    hist.ppr = 3
        => (inst._state = STATE_PLAYING /\ CurrentTime = hist.pausedTime)

(* C4: whenever the instance has no backend source, play() returns false,  *)
(* starts nothing, and the state is Stopped after the call.                *)
C4_PlayWithoutSource ==
    (obs.op = "play" /\ obs.preSource = "null")
        => (obs.ret = "false" /\ obs.starts = <<>> /\ inst._state = STATE_STOPPED)

C7_DisconnectsExistingEdges == obs.threw # "InvalidAccessError"

\* a chain was replaced by the chain that swaps its ends: both disconnects
\* were issued and neither failed
C7_Witness ==
    /\ obs.op = "setExternalNodes" /\ obs.disconnects = 2 /\ obs.threw = ""
    /\ obs.preNodes = <<"A", "B">>
    /\ obs.first = "B" /\ obs.last = "A"

(* C8: Graph backend: the connector has exactly one outgoing connection,   *)
(* to the installed first node, or to the destination when no chain is     *)
(* installed; of the external nodes exactly the installed last node is     *)
(* connected to the destination; getExternalNodes() is the installed pair. *)
C8_ChainIsSpliced ==
    /\ {e \in ctx.edges : e[1] = Connector}
         = {<<Connector,
              IF inst._firstNode # NoNode THEN inst._firstNode ELSE Speakers>>}
    /\ \A n \in ExternalNodes : (<<n, Speakers>> \in ctx.edges) <=> (n = inst._lastNode)
    /\ (obs.op = "setExternalNodes" /\ obs.first # NoNode)
            => getExternalNodes(inst)
                 = <<obs.first, IF obs.last = NoNode THEN obs.first ELSE obs.last>>
    /\ obs.op = "clearExternalNodes" => getExternalNodes(inst) = <<NoNode, NoNode>>

\* both ends of an installed chain were replaced
C8_Witness ==
    /\ obs.op = "setExternalNodes" /\ obs.disconnects = 2
    /\ obs.preNodes = <<"A", "B">>
    /\ getExternalNodes(inst) = <<"C", "A">>

(* C9: Graph backend: clearExternalNodes() leaves only connector ->        *)
(* destination and makes getExternalNodes() return [null, null]; with no   *)
(* chain installed it issues no disconnect.                                *)
C9_ClearRestoresInitialGraph ==
    obs.op = "clearExternalNodes"
        => (/\ ctx.edges = {<<Connector, Speakers>>}
            /\ getExternalNodes(inst) = <<NoNode, NoNode>>
            /\ obs.preNodes = <<NoNode, NoNode>> => obs.disconnects = 0)

\* a chain with distinct ends was cleared
C9_Witness ==
    /\ obs.op = "clearExternalNodes"
    /\ obs.preNodes = <<"A", "B">>
    /\ obs.disconnects = 2

(* C10: Graph backend: in every reachable state, state # Stopped implies   *)
(* that source is non-null.                                                *)
C10_ActiveHasSource ==
    inst._state # STATE_STOPPED => inst.source.status # "null"

(* C11: after a stop() that stopped the instance, followed by play(),      *)
(* with no seek pending, playback                                          *)
(* begins at the start of the window (resource position startTime), not    *)
(* where it was stopped.  Stated on the Element variant, whose backend     *)
(* position is the element's currentTime when source.play() is called.     *)
C11_PlayAfterStopStartsAtWindow ==
    (/\ obs.op = "play" /\ obs.ret = "true"
     /\ obs.prev = "stop" /\ obs.prevRet = "true"
     /\ obs.preOffset = NULL /\ inst._isReady)
        => obs.starts = <<capTime(inst._startTime, inst._sound.duration)>>

(* C12: Graph backend: an assignment currentTime = x, x >= 0, made while   *)
(* the instance is Playing fires no `stop` and no `play` event and leaves  *)
(* the instance Playing.                                                   *)
C12_SeekWhilePlayingIsSilent ==
    (obs.op = "currentTime=" /\ obs.arg >= 0 /\ obs.preState = STATE_PLAYING)
        => (/\ Fired("stop") = 0
            /\ Fired("play") = 0
            /\ inst._state = STATE_PLAYING)

(* C13: an assignment of startTime or duration restarts playback (backend  *)
(* started at the new startTime, state Playing afterwards) if the instance *)
(* was Playing; if it was Stopped or Paused the state is unchanged and no  *)
(* event is fired.                                                         *)
C13_WindowChangeRestartsOnlyPlaying ==
    (obs.op \in {"startTime=", "duration="} /\ obs.preSource # "null")
        => IF obs.preState = STATE_PLAYING
           THEN /\ inst._state = STATE_PLAYING
                /\ obs.starts = <<capTime(inst._startTime, inst._sound.duration)>>
           ELSE /\ inst._state = obs.preState
                /\ obs.fired = <<>>

(* C14: Graph backend: play() at clock t0 with pitch p1, pitch set to p2   *)
(* at clock t1, currentTime read at clock t2 while still Playing, nothing  *)
(* else in between: the value read is                                      *)
(*     ((t1 - t0) * p1 + (t2 - t1) * p2) mod effectiveDuration.            *)
C14_PitchChangeKeepsElapsedTime ==
    (hist.phase = 3 /\ obs.op = "currentTime" /\ inst._state = STATE_PLAYING)
        => obs.val = capTime((hist.t1 - hist.playedAt) * hist.p1
                                + (ctx.currentTime - hist.t1) * inst._pitch,
                             duration_get(inst))

(* C15: right after a play() that returned true while the manager is       *)
(* suspended, and right after a manager `suspend` signal delivered to a    *)
(* subscribed instance that was Playing (with a source), the instance is   *)
(* Paused and isSuspended is true.                                         *)
C15_SuspendedManagerPauses ==
    (\/ obs.op = "play" /\ obs.ret = "true" /\ mgr.suspended
     \/ /\ obs.op = "suspend" /\ mgr.listeners > 0
        /\ obs.preState = STATE_PLAYING /\ obs.preSource # "null")
        => (inst._state = STATE_PAUSED /\ inst._suspended)

(* C16: in every reachable state, isSuspended is true only while the       *)
(* instance is Paused: never while it is Playing or Stopped.               *)
C16_SuspendedImpliesPaused ==
    inst._suspended => inst._state = STATE_PAUSED

(* C17: a manager `resume` signal moves the instance from Paused to        *)
(* Playing only if the pause it was in was made by the manager's suspend;  *)
(* a pause made by the owner's pause() is never ended by the signal.       *)
C17_ManagerResumesOnlyItsOwnPause ==
    (obs.op = "manager resume" /\ obs.preState = STATE_PAUSED
        /\ inst._state = STATE_PLAYING)
        => hist.wasPausedBy = "manager"

(* C18: whenever the instance is Playing or Paused, the backend's output   *)
(* gain is volume * managerVolume and volume is within [0, 1], after any   *)
(* interleaving of volume assignments and manager volume changes.          *)
C18_GainIsVolumeTimesManagerVolume ==
    inst._state \in {STATE_PLAYING, STATE_PAUSED}
        => (/\ inst._volume \in 0..One
            /\ Gain = inst._volume * mgr.volume)

\* the manager's volume changed to 0.5 under a paused instance of volume 0.5:
\* the signal rewrote the gain to 0.25
C18_Witness ==
    /\ obs.op = "volumechange" /\ inst._state = STATE_PAUSED
    /\ inst._volume = 50 /\ mgr.volume = 50 /\ Gain = 2500

(* C19: pause() when the state is not Playing, resume() when it is not     *)
(* Paused and stop() when it is Stopped return false, fire no event, make  *)
(* no backend call and leave every field of the instance (and the manager  *)
(* and the audio context) unchanged.                                       *)
C19_FailedPreconditionIsNoOp ==
    [][(\/ obs'.op = "pause" /\ inst._state # STATE_PLAYING
        \/ obs'.op = "resume" /\ inst._state # STATE_PAUSED
        \/ obs'.op = "stop" /\ inst._state = STATE_STOPPED)
        => (/\ obs'.ret = "false"
            /\ obs'.fired = <<>>
            /\ obs'.starts = <<>> /\ obs'.stops = 0 /\ obs'.disconnects = 0
            /\ obs'.threw = ""
            /\ inst' = inst /\ mgr' = mgr /\ ctx' = ctx)]_vars

\* pause() was called on a Stopped instance with a seek pending: it returned
\* false and the seek is still pending
C19_Witness ==
    /\ obs.op = "pause" /\ obs.preState = STATE_STOPPED /\ obs.ret = "false"
    /\ obs.preOffset = <<Sec>> /\ inst._startOffset = <<Sec>>

(* C20: the value of the `duration` property is                            *)
(* min(windowDuration, resourceDuration - startTime) when windowDuration   *)
(* is positive, and resourceDuration otherwise.                            *)
C20_DurationIsWindowWithinResource ==
    obs.op = "duration"
        => obs.val = IF inst._duration > 0
                     THEN Min(inst._duration, inst._sound.duration - inst._startTime)
                     ELSE inst._sound.duration

(* C21: the state starts as Stopped, and on either variant every single    *)
(* change of the state variable, those made in the middle of a call        *)
(* included, is one of Stopped -> Playing, Playing -> Paused,              *)
(* Playing -> Stopped, Paused -> Playing, Paused -> Stopped.               *)
\* the values the state variable took during the most recent call, from
\* the one it had when the call began
StateChain == <<obs.preState>> \o obs.states

C21_StateChangesFollowTheMachine ==
    /\ obs.op = "new" => inst._state = STATE_STOPPED
    /\ StateChain[Len(StateChain)] = inst._state
    /\ \A k \in 1..Len(obs.states) :
            <<StateChain[k], StateChain[k + 1]>> \in
                {<<STATE_STOPPED, STATE_PLAYING>>, <<STATE_PLAYING, STATE_PAUSED>>,
                 <<STATE_PLAYING, STATE_STOPPED>>, <<STATE_PAUSED, STATE_PLAYING>>,
                 <<STATE_PAUSED, STATE_STOPPED>>}

\* play() under a suspended manager: Stopped -> Playing -> Paused in one call
C21_Witness ==
    /\ obs.op = "play"
    /\ StateChain = <<STATE_STOPPED, STATE_PLAYING, STATE_PAUSED>>

(* C22: on either variant the instance holds at most one subscription to   *)
(* each of the manager's four signals (they are subscribed and unsubscribed *)
(* together), and none while it is Stopped: reaching Stopped, by stop(), a  *)
(* source's end, a sound swap or a window change, removes them.             *)
C22_SubscribedAtMostOnceAndNotWhenStopped ==
    /\ mgr.listeners <= 1
    /\ inst._state = STATE_STOPPED => mgr.listeners = 0

\* a subscribed instance has just become Stopped by a sound swap
C22_Witness ==
    /\ obs.op = "sound="
    /\ obs.preState # STATE_STOPPED
    /\ inst._state = STATE_STOPPED
    /\ mgr.listeners = 0

(* C23: Graph backend: while the instance is Paused and currentTime has    *)
(* not been assigned, a read of currentTime returns the position pause()    *)
(* froze, however far the clock has moved and whatever was assigned to      *)
(* volume, pitch and loop during the pause.                                 *)
C23_PausedPositionIsFrozen ==
    (/\ obs.op = "currentTime"
     /\ inst._state = STATE_PAUSED
     /\ hist.frozen # NULL)
        => obs.val = Num(hist.frozen)

(* C24: Graph backend: a source that play() or resume() has just started   *)
(* has loopStart = startTime mod bufferDuration and, when windowDuration is *)
(* positive, loopEnd = max(loopStart, (startTime + windowDuration) mod      *)
(* bufferDuration), for the startTime and windowDuration of that moment,    *)
(* whatever was assigned to them before and in whatever state.              *)
C24_StartedSourceLoopsOverTheWindow ==
    (/\ obs.starts # <<>>
     /\ obs.threw = ""
     /\ inst.source.status = "started")
        => /\ inst.source.loopStart = capTime(inst._startTime, inst.source.buffer)
           /\ inst._duration > 0 =>
                inst.source.loopEnd =
                    Max(capTime(inst._startTime, inst.source.buffer),
                        capTime(inst._startTime + inst._duration, inst.source.buffer))

(* C25: Graph backend: over play/pause/resume/stop, seeks, window changes   *)
(* and swaps of the sound (decoded resource, resource without a buffer,     *)
(* null), start is only ever called on a source that has not been started   *)
(* (so no source is started twice, and none after it was stopped), and the  *)
(* source held after a swap to a decoded resource is bound to its buffer.   *)
C25_SourcesStartOnceOnTheNewBuffer ==
    /\ ~(obs.threw = "InvalidStateError" /\ inst.source.status \notin {"fresh", "null"})
    /\ (obs.op = "sound=" /\ inst._sound.kind = "buffer" /\ inst.source.status # "null")
            => inst.source.buffer = inst._sound.duration

(* C26: Graph backend: right after the manager's `destroy` signal has been  *)
(* delivered to a subscribed instance that was Playing or Paused, the       *)
(* instance holds no source (source is null) and no started source is left  *)
(* running.                                                                 *)
C26_DestroyReleasesTheSource ==
    (/\ obs.op = "destroy"
     /\ mgr.listeners > 0
     /\ obs.preState \in {STATE_PLAYING, STATE_PAUSED})
        => inst.source.status = "null"

(* C27: Element variant with a positive windowDuration: whenever a         *)
(* position update (`timeupdate`) arrives while the instance is Playing and *)
(* the element's position is past the end of the window, then with loop on  *)
(* the position is set back to startTime, and with loop off the instance    *)
(* emits `end` and becomes Stopped; on every playthrough, whatever pauses,  *)
(* stops and window ends came before.                                       *)
C27_WindowEndLoopsOrEnds ==
    (/\ obs.op = "tick"
     /\ obs.delivered.cause = "timeupdate"
     /\ obs.preState = STATE_PLAYING
     /\ inst._duration > 0
     /\ obs.val > capTime(inst._startTime + inst._duration, inst.source.duration))
        => IF inst._loop
           THEN inst.source.currentTime = capTime(inst._startTime, inst.source.duration)
           ELSE Fired("end") = 1 /\ inst._state = STATE_STOPPED

(* C28: in a play() that starts playback, on either variant, the backend   *)
(* source is started before volume, pitch and loop are written to the       *)
(* backend.                                                                 *)
C28_StartedBeforeParameters ==
    (obs.op = "play" /\ obs.ret = "true")
        => \E k \in 1..Len(obs.calls) :
                /\ obs.calls[k] = "start"
                /\ \A j \in 1..Len(obs.calls) :
                        obs.calls[j] \in {"volume", "pitch", "loop"} => k < j

(* C29: Graph backend with a positive windowDuration: a source that play() *)
(* or resume() has just started, at whatever offset, was asked to play only *)
(* inside the window: the start offset plus the duration passed to the      *)
(* backend is at most startTime + windowDuration.                           *)
C29_StartStaysInsideTheWindow ==
    (/\ obs.starts # <<>>
     /\ obs.threw = ""
     /\ inst.source.status = "started"
     /\ inst._duration > 0)
        => Num(inst.source.offset) + Num(inst.source.duration)
                <= inst._startTime + inst._duration

(* C30: Graph backend: in every state in which the instance has a source   *)
(* (Stopped, Paused or Playing), after currentTime = x with                 *)
(* 0 <= x < effectiveDuration, a read of currentTime made right away, with  *)
(* no advance of the clock, returns x.                                      *)
C30_ReadAfterSeekReturnsTheTarget ==
    (/\ obs.op = "currentTime"
     /\ hist.checked # NULL
     /\ Num(hist.checked) < duration_get(inst))
        => obs.val = Num(hist.checked)

====
